---- MODULE Spec2Model ----
(***************************************************************************)
(* Model of src/main.rs: a warp HTTP server with three JSON routes behind  *)
(* a CORS wrapper, a startup banner and a listener bound to port 8001.     *)
(*                                                                         *)
(* A request path is the sequence of its segments after the leading "/":   *)
(* "/" is <<>>, "/health" is <<"health">>, "/api/info/x" is                 *)
(* <<"api","info","x">>.  A header that may be absent is a sequence of     *)
(* length 0 or 1 (Rust's Option).  A response body is the JSON text that   *)
(* goes on the wire.                                                       *)
(***************************************************************************)
EXTENDS Bags, FiniteSets, Integers, Sequences, TLC

VARIABLES
  pc,        \* where main is: "main", "serving", "panicked", "terminated"
  stdout,    \* the lines written to standard output so far
  listener,  \* the TCP listener: "unbound", "bound", "failed"
  inflight,  \* bag of the requests accepted and not yet answered
  accepted,  \* how many requests the listener has accepted
  log        \* the answered requests, in the order they were answered

vars == <<pc, stdout, listener, inflight, accepted, log>>

(* ---------------------------- bounds ----------------------------------- *)
\* number of requests the model lets the listener accept in one run
MaxRequests == 2

(* ---------------------------- inputs ----------------------------------- *)
Methods == {"GET", "POST", "OPTIONS"}
Paths == {<<>>, <<"health">>, <<"api", "info">>,
          <<"health", "x">>, <<"api", "info", "x">>}
Origins == {<<>>, <<"https://a.example">>}
Requests == [method : Methods, path : Paths, origin : Origins]

(* ---------------------------- constants -------------------------------- *)
PORT == 8001

(* ------------------------- JSON serialization -------------------------- *)
Str(s) == [kind |-> "str", s |-> s, n |-> 0]
Num(n) == [kind |-> "num", s |-> "", n |-> n]
Entry(k, v) == [key |-> k, val |-> v]

\* the UTF-8 bytes of the keys used in the json! object, which is what
\* String's Ord (the BTreeMap key order) compares
KeyBytes ==
  [service     |-> <<115, 101, 114, 118, 105, 99, 101>>,
   version     |-> <<118, 101, 114, 115, 105, 111, 110>>,
   description |-> <<100, 101, 115, 99, 114, 105, 112, 116, 105, 111, 110>>,
   author      |-> <<97, 117, 116, 104, 111, 114>>,
   port        |-> <<112, 111, 114, 116>>]

RECURSIVE LexLess(_, _)
LexLess(a, b) ==
  IF b = <<>> THEN FALSE
  ELSE IF a = <<>> THEN TRUE
  ELSE IF Head(a) # Head(b) THEN Head(a) < Head(b)
  ELSE LexLess(Tail(a), Tail(b))

KeyLess(k1, k2) == LexLess(KeyBytes[k1], KeyBytes[k2])

\* serde_json::Map::insert on the default (BTreeMap) map: the entry goes to
\* its place in key order and replaces an entry with the same key
RECURSIVE MapInsert(_, _)
MapInsert(map, e) ==
  IF map = <<>> THEN <<e>>
  ELSE IF Head(map).key = e.key THEN <<e>> \o Tail(map)
  ELSE IF KeyLess(e.key, Head(map).key) THEN <<e>> \o map
  ELSE <<Head(map)>> \o MapInsert(Tail(map), e)

\* the json!({...}) macro: an empty map, then one insert per listed entry
RECURSIVE JsonObject(_)
JsonObject(entries) ==
  IF entries = <<>> THEN <<>>
  ELSE MapInsert(JsonObject(SubSeq(entries, 1, Len(entries) - 1)),
                 entries[Len(entries)])

Quote(s) == "\"" \o s \o "\""
WriteValue(v) == IF v.kind = "str" THEN Quote(v.s) ELSE ToString(v.n)
WriteEntry(e) == Quote(e.key) \o ":" \o WriteValue(e.val)

RECURSIVE WriteEntries(_)
WriteEntries(es) ==
  IF es = <<>> THEN ""
  ELSE IF Len(es) = 1 THEN WriteEntry(es[1])
  ELSE WriteEntry(es[1]) \o "," \o WriteEntries(Tail(es))

\* serde_json's compact writer: entries in the order the serializer is fed
ToJson(es) == "{" \o WriteEntries(es) \o "}"

\* #[derive(Serialize)] struct ApiResponse: fields in declaration order
ApiResponse(message, status) ==
  <<Entry("message", Str(message)), Entry("status", Str(status))>>

(* ------------------------------ replies -------------------------------- *)
NoHeaders == {}
Reply(status, headers, body) ==
  [ok |-> TRUE, status |-> status, headers |-> headers, body |-> body,
   reason |-> "none"]
Rejection(reason) ==
  [ok |-> FALSE, status |-> 0, headers |-> NoHeaders, body |-> "",
   reason |-> reason]

\* warp::reply::json: 200, content-type application/json, the JSON text
ReplyJson(es) ==
  Reply(200, {<<"content-type", "application/json">>}, ToJson(es))

(* --------------------------- path filters ------------------------------ *)
\* warp::path::end(): matches when no unmatched path is left
PathEnd(rest) == rest = <<>>

\* the next unmatched segment ("" when nothing is left)
Segment(rest) == IF rest = <<>> THEN "" ELSE Head(rest)

\* warp::path("p"): matches when the next segment equals p
PathMatches(p, rest) == Segment(rest) = p

\* the unmatched path after a matched segment
Consume(rest) == IF rest = <<>> THEN <<>> ELSE Tail(rest)

(* ------------------------------ routes --------------------------------- *)
\* the replies the three closures build; each is built from literals alone
helloReply ==
  ReplyJson(ApiResponse("Hello from Rust Docker container!", "success"))
healthReply ==
  ReplyJson(ApiResponse("Service is healthy", "ok"))
infoReply ==
  ReplyJson(JsonObject(<<Entry("service", Str("rust-project")),
                         Entry("version", Str("0.1.0")),
                         Entry("description",
                               Str("Rust web service running in Docker")),
                         Entry("author", Str("Abdulwahed")),
                         Entry("port", Num(PORT))>>))

\* let hello = warp::path::end().map(...)
hello(req) ==
  IF PathEnd(req.path) THEN helloReply ELSE Rejection("not_found")

\* a faulty variant: the health closure builds the hello reply
healthAsHello(req) ==
  IF PathMatches("health", req.path) THEN helloReply
  ELSE Rejection("not_found")

\* let health = warp::path("health").map(...)
health(req) ==
  IF PathMatches("health", req.path) THEN healthReply
  ELSE Rejection("not_found")

\* let info = warp::path!("api" / "info").map(...); the macro appends end()
info(req) ==
  IF /\ PathMatches("api", req.path)
     /\ PathMatches("info", Consume(req.path))
     /\ PathEnd(Consume(Consume(req.path)))
  THEN infoReply
  ELSE Rejection("not_found")

\* a.or(b): b is tried, from the original path, when a rejects
Or(a, b) == IF a.ok THEN a ELSE b

\* hello.or(health).or(info)
Unwrapped(req) == Or(Or(hello(req), health(req)), info(req))

(* ------------------------------- CORS ---------------------------------- *)
\* warp::cors().allow_any_origin(): the builder's origins become "any";
\* its set of allowed methods stays as built, empty
IsOriginAllowed(origin) == TRUE

\* what the CORS wrapper makes of the request before the routes see it:
\* no Origin header is not CORS; OPTIONS with an Origin is a preflight, which
\* needs the requested method to be an allowed one, and none is; any other
\* method with an Origin is a simple CORS request
CheckRequest(req) ==
  IF req.origin = <<>> THEN "not_cors"
  ELSE IF req.method = "OPTIONS"
       THEN IF ~IsOriginAllowed(req.origin[1]) THEN "origin_not_allowed"
            ELSE "method_not_allowed"
       ELSE IF IsOriginAllowed(req.origin[1]) THEN "simple"
            ELSE "origin_not_allowed"

\* a faulty variant: the wrapper passes the reply on untouched
CorsNoHeader(reply, origin) == reply

\* the wrapper's reply to a simple CORS request: the route's reply plus the
\* allow-origin header naming the request's origin
CorsReply(reply, origin) ==
  [reply EXCEPT !.headers =
     reply.headers \cup {<<"access-control-allow-origin", origin>>}]

\* routes = hello.or(health).or(info).with(warp::cors().allow_any_origin())
routes(req) ==
  LET v == CheckRequest(req) IN
  IF v = "simple"
  THEN LET r == Unwrapped(req) IN
       IF r.ok THEN CorsReply(r, req.origin[1]) ELSE r
  ELSE IF v = "not_cors" THEN Unwrapped(req)
  ELSE Rejection(v)

\* warp::serve turns a rejection into its default response
Response(r) == [status |-> r.status, headers |-> r.headers, body |-> r.body]
RejectionResponse(r) ==
  IF r.reason = "not_found" THEN [status |-> 404, headers |-> NoHeaders, body |-> ""]
  ELSE [status |-> 403,
        headers |-> {<<"content-type", "text/plain; charset=utf-8">>},
        body |-> IF r.reason = "method_not_allowed"
                 THEN "CORS request forbidden: request-method not allowed"
                 ELSE "CORS request forbidden: origin not allowed"]

\* a faulty variant, a server that sheds load: busy when another request is in flight
ServeShared(req) ==
  LET r == routes(req) IN
  IF BagCardinality(inflight) > 1
  THEN [status |-> 503, headers |-> NoHeaders, body |-> ""]
  ELSE IF r.ok THEN Response(r) ELSE RejectionResponse(r)

\* a faulty variant, a server whose bodies carry a hit counter
ServeCounting(req) ==
  LET r == routes(req) IN
  IF r.ok THEN [Response(r) EXCEPT !.body = r.body \o ToString(Len(log))]
  ELSE RejectionResponse(r)

Serve(req) ==
  LET r == routes(req) IN IF r.ok THEN Response(r) ELSE RejectionResponse(r)

(* ------------------------------- main ---------------------------------- *)
\* the text of the five banner lines (without the emoji two of them start with)
BannerLines ==
  <<"Server starting on http://0.0.0.0:8001",
    "Endpoints:",
    "   GET /        - Welcome message",
    "   GET /health  - Health check",
    "   GET /api/info - Service information">>

Init ==
  /\ pc = "main"
  /\ stdout = <<>>
  /\ listener = "unbound"
  /\ inflight = EmptyBag
  /\ accepted = 0
  /\ log = <<>>

\* the five println! calls, one line each, in program order
Println ==
  /\ pc = "main"
  /\ Len(stdout) < Len(BannerLines)
  /\ stdout' = Append(stdout, BannerLines[Len(stdout) + 1])
  /\ UNCHANGED <<pc, listener, inflight, accepted, log>>

\* a faulty variant: the bind does not wait for the printing
AtBindEarly == pc = "main"

\* main has reached warp::serve(routes).bind(...): the printing is done
AtBind == pc = "main" /\ Len(stdout) = Len(BannerLines)

\* bind succeeds: the server starts accepting
BindOk ==
  /\ AtBind
  /\ listener' = "bound"
  /\ pc' = "serving"
  /\ UNCHANGED <<stdout, inflight, accepted, log>>

\* a faulty variant: a failed bind leaves main running, to bind again
BindFailRetry ==
  /\ AtBind
  /\ listener = "unbound"
  /\ listener' = "failed"
  /\ UNCHANGED <<pc, stdout, inflight, accepted, log>>

\* bind fails (port in use, no privilege): warp panics, the process exits
BindFail ==
  /\ AtBind
  /\ listener' = "failed"
  /\ pc' = "panicked"
  /\ UNCHANGED <<stdout, inflight, accepted, log>>

\* the server accepts a connection and reads a request from it
Accept(req) ==
  /\ pc = "serving"
  /\ accepted < MaxRequests
  /\ inflight' = inflight (+) SetToBag({req})
  /\ accepted' = accepted + 1
  /\ UNCHANGED <<pc, stdout, listener, log>>

\* a faulty variant, a server that a rejected request brings down
HandleFails(req) ==
  /\ pc = "serving"
  /\ BagIn(req, inflight)
  /\ inflight' = inflight (-) SetToBag({req})
  /\ log' = Append(log, [req |-> req, resp |-> Serve(req),
                          others |-> BagCardinality(inflight) - 1])
  /\ pc' = IF routes(req).ok THEN pc ELSE "panicked"
  /\ UNCHANGED <<stdout, listener, accepted>>

\* the request's task runs the route filters and writes the response
Handle(req) ==
  /\ pc = "serving"
  /\ BagIn(req, inflight)
  /\ inflight' = inflight (-) SetToBag({req})
  /\ log' = Append(log, [req |-> req, resp |-> Serve(req),
                          others |-> BagCardinality(inflight) - 1])
  /\ UNCHANGED <<pc, stdout, listener, accepted>>

\* the client goes away before its request is answered: the task is dropped
Drop(req) ==
  /\ pc = "serving"
  /\ BagIn(req, inflight)
  /\ inflight' = inflight (-) SetToBag({req})
  /\ UNCHANGED <<pc, stdout, listener, accepted, log>>

\* an external termination signal ends the process and its connections
Kill ==
  /\ pc \in {"main", "serving"}
  /\ pc' = "terminated"
  /\ inflight' = EmptyBag
  /\ UNCHANGED <<stdout, listener, accepted, log>>

Next ==
  \/ Println
  \/ BindOk
  \/ BindFail
  \/ \E req \in Requests : Accept(req)
  \/ \E req \in Requests : Handle(req)
  \/ \E req \in Requests : Drop(req)
  \/ Kill

Spec == Init /\ [][Next]_vars

\* the async runtime polls every ready task: while a request is in flight,
\* some request's task gets to run
HandleSome == \E req \in Requests : Handle(req)
Fairness == WF_vars(HandleSome)
LiveSpec == Init /\ [][Next]_vars /\ Fairness

(* ====================== properties of the program ======================= *)
Answered == {log[i] : i \in 1..Len(log)}
DefinedRoutes == {<<>>, <<"health">>, <<"api", "info">>}
HasHeader(resp, name) == \E h \in resp.headers : h[1] = name

HelloBody == "{\"message\":\"Hello from Rust Docker container!\",\"status\":\"success\"}"
HealthBody == "{\"message\":\"Service is healthy\",\"status\":\"ok\"}"
InfoBodyAsListed == "{\"service\":\"rust-project\",\"version\":\"0.1.0\",\"description\":\"Rust web service running in Docker\",\"author\":\"Abdulwahed\",\"port\":8001}"

\* the documented fields of /api/info, and their JSON text in every key order
InfoFields ==
  {Entry("service", Str("rust-project")), Entry("version", Str("0.1.0")),
   Entry("description", Str("Rust web service running in Docker")),
   Entry("author", Str("Abdulwahed")), Entry("port", Num(8001))}
InfoBodies ==
  {ToJson(f) : f \in {g \in [1..5 -> InfoFields] :
                        \A i, j \in 1..5 : i # j => g[i] # g[j]}}

\* C1: every answered request to a path other than /, /health and /api/info,
\* the extensions /health/x and /api/info/x included, was answered 404.
C1_OtherPathsNotFound ==
  \A e \in Answered : e.req.path \notin DefinedRoutes => e.resp.status = 404

\* C2: every answered request whose method is not GET, to any path, was
\* answered 404 and not with a route's 200 JSON body.
C2_NonGetNotFound ==
  \A e \in Answered :
    e.req.method # "GET" =>
      /\ e.resp.status = 404
      /\ e.resp.body \notin {HelloBody, HealthBody} \cup InfoBodies

\* C3: every answered GET of /, /health or /api/info has status 200 and a
\* JSON body holding exactly the documented fields and values of its own
\* route (for /api/info in whatever key order), never another route's.
C3_RouteBodies ==
  \A e \in Answered :
    (e.req.method = "GET" /\ e.req.path \in DefinedRoutes) =>
      /\ e.resp.status = 200
      /\ <<"content-type", "application/json">> \in e.resp.headers
      /\ e.req.path = <<>> => e.resp.body = HelloBody
      /\ e.req.path = <<"health">> => e.resp.body = HealthBody
      /\ e.req.path = <<"api", "info">> => e.resp.body \in InfoBodies
C3_Witness ==
  \E e1, e2 \in Answered :
    /\ e1.req.method = "GET" /\ e1.req.path = <<"api", "info">>
    /\ e2.req.method = "GET" /\ e2.req.path = <<"health">>

\* C4: every answered GET of a route has its keys in the listed order:
\* message, status for / and /health, and service, version, description,
\* author, port for /api/info.
C4_KeysInListedOrder ==
  \A e \in Answered :
    (e.req.method = "GET" /\ e.req.path \in DefinedRoutes) =>
      /\ e.req.path = <<>> => e.resp.body = HelloBody
      /\ e.req.path = <<"health">> => e.resp.body = HealthBody
      /\ e.req.path = <<"api", "info">> => e.resp.body = InfoBodyAsListed

\* C5 as stated: every response to a request for one of the three routes,
\* with or without an Origin header, carries an allow-origin header.
C5_AlwaysAllowOrigin ==
  \A e \in Answered :
    e.req.path \in DefinedRoutes =>
      HasHeader(e.resp, "access-control-allow-origin")

\* C5 as amended: a response to a request for one of the three routes carries
\* an allow-origin header exactly when the request has an Origin header and
\* is not an OPTIONS request, and the header then names that origin.
C5_AllowOriginWhenCors ==
  \A e \in Answered :
    e.req.path \in DefinedRoutes =>
      IF e.req.origin # <<>> /\ e.req.method # "OPTIONS"
      THEN <<"access-control-allow-origin", e.req.origin[1]>> \in e.resp.headers
      ELSE ~HasHeader(e.resp, "access-control-allow-origin")
C5_Witness ==
  \E e \in Answered :
    /\ e.req.path \in DefinedRoutes /\ e.req.method = "GET"
    /\ e.req.origin # <<>>
    /\ HasHeader(e.resp, "access-control-allow-origin")

\* C6 as stated: whenever banner lines are on standard output the listener
\* has bound, and a failed bind leaves standard output empty.
C6_BannerAfterBind ==
  /\ stdout # <<>> => listener = "bound"
  /\ listener = "failed" => stdout = <<>>

\* C6 as amended: the bind is attempted only after all five banner lines are
\* written; a failed bind, like a successful one, leaves the full banner.
C6_BannerBeforeBind == listener # "unbound" => stdout = BannerLines
C6_Witness == listener = "failed" /\ stdout = BannerLines

\* C7: once the bind has failed the process is over: it has panicked, it
\* has accepted, holds and has answered no request, and the bind is never
\* tried again.
C7_BindFailureIsFatal ==
  /\ [](listener = "failed" =>
          /\ pc = "panicked"
          /\ accepted = 0 /\ inflight = EmptyBag /\ log = <<>>)
  /\ [][listener = "failed" => listener' = "failed" /\ pc' = "panicked"]_vars
C7_Witness == listener = "failed" /\ pc = "panicked"

\* C8: whatever else was in flight, answered or dropped when a request was
\* handled, a GET of a route succeeded, and two requests that are the same
\* got the same response even when one was handled alone and the other
\* beside other requests.
C8_IndependentOfOthers ==
  /\ \A e \in Answered :
       (e.req.method = "GET" /\ e.req.path \in DefinedRoutes) =>
         e.resp.status = 200
  /\ \A e1, e2 \in Answered : e1.req = e2.req => e1.resp = e2.resp
C8_Witness ==
  \E e1, e2 \in Answered :
    /\ e1.req = e2.req /\ e1.others = 0 /\ e2.others > 0
    /\ e1.req.method = "GET" /\ e1.req.path \in DefinedRoutes

\* C9: of two identical requests, the later one is answered with the status
\* and the very body text of the earlier one.
C9_Idempotent ==
  \A i, j \in 1..Len(log) :
    (i < j /\ log[i].req = log[j].req) =>
      /\ log[j].resp.status = log[i].resp.status
      /\ log[j].resp.body = log[i].resp.body
C9_Witness ==
  /\ Len(log) = 2
  /\ log[1].req = log[2].req
  /\ log[1].others = 0 /\ log[2].others = 0
  /\ log[1].resp.status = 200

\* C10: once bound the server keeps serving: only the termination signal
\* moves it out of "serving", no handled request does; a request leaves
\* flight only by being answered, by its client going away or by that
\* signal; and the requests in flight do eventually all leave it.
C10_ServesForever ==
  /\ [][pc = "serving" => (pc' = "serving" \/ (pc' = "terminated" /\ Kill))]_vars
  /\ [][\A req \in Requests :
          CopiesIn(req, inflight') < CopiesIn(req, inflight) =>
            \/ Len(log') = Len(log) + 1 /\ log'[Len(log')].req = req
            \/ Drop(req)
            \/ Kill]_vars
  /\ (pc = "serving" /\ inflight # EmptyBag) ~> (inflight = EmptyBag)
C10_Witness ==
  /\ pc = "serving"
  /\ Len(log) = MaxRequests
  /\ \E e \in Answered : e.resp.status = 404

====
